---- MODULE Spec2Model ----
(***************************************************************************)
(* The alert monitoring engine of stock-alerts-flask (src/app.py): the     *)
(* price cache, the background tick check_alerts_job driven by the         *)
(* APScheduler interval job, and the request handlers that touch the same  *)
(* alerts.                                                                 *)
(*                                                                         *)
(* Specifications                                                          *)
(*   Spec         the scheduler, the tick (one step per store or network   *)
(*                call) and the alert handlers add/edit/delete             *)
(*   SpecCache    get_cached_price called sequentially at arbitrary times  *)
(*   SpecCallers  get_cached_price run by two threads, line by line        *)
(*   SpecLookup   the cache next to the dashboard and /price lookups       *)
(*   SpecCalendar the market gate at every clock reading of the week       *)
(*   SpecTrigger  the trigger test on alerts and prices around the target  *)
(*   SpecEligibility  a triggered alert in front of the eligibility gate   *)
(*   SpecLive     the tick under fairness, with a call that may hang       *)
(*   SpecEdits    the tick next to add_alert, edit and quick update        *)
(*   SpecQuote    get_stock_price on every symbol and pair of frames       *)
(*   SpecRetry    ticks one after the other, failed fetches recorded       *)
(*   SpecOrphans  triggered alerts of owners without users/settings rows   *)
(*   SpecAddRace  two add_alert requests of one user side by side          *)
(***************************************************************************)
EXTENDS Integers, Sequences, FiniteSets, TLC

(***************************************************************************)
(* Bounds of the model.                                                    *)
(***************************************************************************)
\* alert ids ever handed out by the store
MaxAlerts == 2
\* seconds the clock advances in one Elapse step
TimeUnit == 300
\* number of Elapse steps after which the clock stops
MaxElapses == 2

MaxTime == MaxElapses * TimeUnit

\* seconds the clock advances in one step of SpecCache, SpecCallers and
\* SpecLookup, and the seconds a fetch takes when it is slow
CacheTick == 20
\* number of such steps after which the clock stops
MaxCacheSteps == 4
\* get_cached_price calls two threads enter in SpecCallers
MaxCalls == 3

MaxCacheTime == MaxCacheSteps * CacheTick

\* number of clock steps in SpecLookup
MaxLookupSteps == 3

MaxLookupTime == MaxLookupSteps * CacheTick

(***************************************************************************)
(* Program constants.                                                      *)
(***************************************************************************)
\* CACHE_DURATION = 60  # 1 minute cache
CACHE_DURATION == 60
\* scheduler.add_job(func=check_alerts_job, trigger="interval", minutes=5)
INTERVAL == 300
\* alert_limit = 10  # Free tier limit
alert_limit == 10
\* get_stock_price returns None when there is no price; every caller tests the
\* price for truth ("if price:", "if not price:"), so None is the falsy price 0.
NoPrice == 0

(***************************************************************************)
(* Input domains.                                                          *)
(***************************************************************************)
Users == {"ann", "bob"}
Symbols == {"AAPL", "BHP.AX"}
Prices == {100, 110}
Targets == {100}
Types == {"above", "below"}
Instances == {1, 2}

\* symbol.endswith('.AX')
EndsWithAX(symbol) == symbol \in {"BHP.AX"}

\* What one yfinance history(period='1d') call gives: rows with a last Close
\* and a last Open, an empty frame, or an exception.
YfEmpty == [kind |-> "empty", close |-> 0, open |-> 0]

YfRaise == [kind |-> "raise", close |-> 0, open |-> 0]

YfResults ==
    {YfEmpty, YfRaise}
        \cup {[kind |-> "price", close |-> p, open |-> p] : p \in Prices}

\* The answers the price source would give for a symbol and for symbol + '.AX'.
Quotes == [base : YfResults, ax : YfResults]

VARIABLES
    now,          \* time.time() / datetime.now(), in seconds
    nextRun,      \* next run time of the interval job
    alerts,       \* table alerts: id -> row
    nextId,       \* next id the store hands out
    users,        \* table users: username -> row
    settings,     \* table user_settings: username -> row
    price_cache,  \* _price_cache: symbol -> <<price, timestamp>>
    tick,         \* per job instance: position in check_alerts_job and locals
    sends,        \* history: send_telegram calls made for each alert id
    storeFailed,  \* history: an exception was raised inside a tick
    lastCall,     \* SpecCache: the latest get_cached_price call
    fetchLog,     \* SpecCache: per symbol, the latest fetch and its outcome
    callers,      \* SpecCallers: the threads inside get_cached_price
    race,         \* SpecCallers: history of fetches and stores
    lookup,       \* SpecLookup: the latest handler lookup
    probe         \* the inputs, locals and result of the function or handler
                  \* under test

vars ==
    <<now, nextRun, alerts, nextId, users, settings, price_cache, tick,
      sends, storeFailed, lastCall, fetchLog, callers, race, lookup, probe>>

\* The history variables of the specifications other than Spec.
auxVars == <<lastCall, fetchLog, callers, race, lookup, probe>>

(***************************************************************************)
(* PriceSource: get_stock_price.                                           *)
(***************************************************************************)
\* The yf.Ticker(...).history(period='1d') calls get_stock_price(symbol)
\* makes, in order: the base symbol, then symbol + '.AX' when the base frame
\* is empty and the symbol has no .AX suffix.
history_calls(symbol, q) ==
    IF q.base.kind = "empty" /\ ~EndsWithAX(symbol)
    THEN <<symbol, symbol \o ".AX">>
    ELSE <<symbol>>

\* change_pct = ((price - prev) / prev) * 100 with prev the last Open: a float
\* division, which raises ZeroDivisionError when prev is 0.0.
change_pct_raises(data) == data.open = 0

\* The price part of get_stock_price(symbol): the Close of the last frame
\* fetched; None (NoPrice) when that frame is empty or anything inside the
\* try block raised.
get_stock_price(symbol, q) ==
    IF q.base.kind = "raise"
    THEN NoPrice
    ELSE LET data ==
                 IF Len(history_calls(symbol, q)) = 2
                 THEN q.ax
                 ELSE q.base
         IN  IF data.kind = "price" /\ ~change_pct_raises(data)
             THEN data.close
             ELSE NoPrice

(***************************************************************************)
(* PriceCache: get_cached_price.                                           *)
(***************************************************************************)
\* A freshness test that still serves an entry whose age is CACHE_DURATION.
CacheHit_inclusive(c, symbol, t) ==
    /\ symbol \in DOMAIN c
    /\ t - c[symbol][2] <= CACHE_DURATION

\* if symbol in _price_cache: ... if time.time() - cached_time < CACHE_DURATION
CacheHit(c, symbol, t) ==
    /\ symbol \in DOMAIN c
    /\ t - c[symbol][2] < CACHE_DURATION

\* _price_cache[symbol] = (price, time.time())
CachePut(c, symbol, price, t) ==
    [x \in DOMAIN c \cup {symbol} |-> IF x = symbol THEN <<price, t>> ELSE c[x]]

\* A store that drops the entry of a symbol whose fetch failed.
CacheStore_evict(c, symbol, price, t) ==
    IF price # NoPrice
    THEN CachePut(c, symbol, price, t)
    ELSE [x \in DOMAIN c \ {symbol} |-> c[x]]

\* A store that keeps the outcome of every fetch, a failed one too.
CacheStore_negative(c, symbol, price, t) ==
    CachePut(c, symbol, price, t)

\* if price: _price_cache[symbol] = (price, time.time())
CacheStore(c, symbol, price, t) ==
    IF price # NoPrice THEN CachePut(c, symbol, price, t) ELSE c

\* A cache whose entries never expire.
get_cached_price_no_expiry(c, symbol, t, q, t_store) ==
    IF symbol \in DOMAIN c
    THEN [ret |-> c[symbol][1], cache |-> c, fetched |-> 0]
    ELSE [ret |-> get_stock_price(symbol, q),
          cache |-> CacheStore(c, symbol, get_stock_price(symbol, q), t_store),
          fetched |-> 1]

\* get_cached_price(symbol) run without interruption, the price source
\* answering q: the price returned, the cache afterwards and the number of
\* get_stock_price calls made. t is the time.time() of the freshness check,
\* t_store the time.time() of the store that follows the fetch.
get_cached_price(c, symbol, t, q, t_store) ==
    IF CacheHit(c, symbol, t)
    THEN [ret |-> c[symbol][1], cache |-> c, fetched |-> 0]
    ELSE LET price == get_stock_price(symbol, q)
         IN  [ret |-> price,
              cache |-> CacheStore(c, symbol, price, t_store),
              fetched |-> 1]

(***************************************************************************)
(* MarketCalendar: the gate at the head of check_alerts_job.               *)
(***************************************************************************)
LocalTime(wd, h, m) == [weekday |-> wd, hour |-> h, minute |-> m]

\* A US session that opens on the hour.
us_open_on_the_hour(now_ny) ==
    /\ now_ny.weekday < 5
    /\ 9 <= now_ny.hour /\ now_ny.hour < 16

\* An ASX session that closes an hour late.
asx_open_until_five(now_sydney) ==
    /\ now_sydney.weekday < 5
    /\ 10 <= now_sydney.hour /\ now_sydney.hour < 17

\* us_open = (now_ny.weekday() < 5 and 9 <= now_ny.hour < 16 and
\*            not (now_ny.hour == 9 and now_ny.minute < 30))
us_open(now_ny) ==
    /\ now_ny.weekday < 5
    /\ 9 <= now_ny.hour /\ now_ny.hour < 16
    /\ ~(now_ny.hour = 9 /\ now_ny.minute < 30)

\* asx_open = (now_sydney.weekday() < 5 and 10 <= now_sydney.hour < 16)
asx_open(now_sydney) ==
    /\ now_sydney.weekday < 5
    /\ 10 <= now_sydney.hour /\ now_sydney.hour < 16

\* A gate that lets every tick through.
markets_closed_never(now_ny, now_sydney) == FALSE

\* if not us_open and not asx_open: ... return
markets_closed(now_ny, now_sydney) ==
    ~us_open(now_ny) /\ ~asx_open(now_sydney)

\* datetime.weekday(), .hour and .minute of a local time.
LocalTimes ==
    [weekday : 0..6, hour : 0..23, minute : 0..59]

\* The local time a number of whole hours later.
HoursLater(lt, h) ==
    LET t == (lt.weekday * 24 + lt.hour + h) % (7 * 24)
    IN  LocalTime(t \div 24, t % 24, lt.minute)

\* Sydney is 14, 15 or 16 hours ahead of New York, with the daylight saving
\* of the two zones.
SydneyAhead == {14, 15, 16}

\* Every pair of readings one instant can give.
AllClockReadings ==
    {[ny |-> lt, sydney |-> HoursLater(lt, h)] : lt \in LocalTimes,
                                                  h \in SydneyAhead}

\* What datetime.now(pytz.UTC) reads in the two zones when a tick starts
\* (Sydney is 14 to 16 hours ahead of New York).
ClockReadings ==
    {[ny |-> LocalTime(1, 9, 30), sydney |-> LocalTime(2, 1, 30)],
     [ny |-> LocalTime(0, 20, 0), sydney |-> LocalTime(1, 12, 0)],
     [ny |-> LocalTime(5, 12, 0), sydney |-> LocalTime(6, 4, 0)],
     [ny |-> LocalTime(1, 9, 29), sydney |-> LocalTime(2, 1, 29)]}

(***************************************************************************)
(* TriggerEvaluator and EligibilityGate, as written in check_alerts_job.   *)
(***************************************************************************)
\* A test that takes every price for a present one.
not_price_never(price) ==
    FALSE

\* if not price: continue
not_price(price) ==
    price = NoPrice

\* A trigger test that every alert passes.
triggered_always(alert, price) ==
    TRUE

\* A trigger test that leaves the target itself out.
triggered_strict(alert, price) ==
    \/ alert.type = "above" /\ price > alert.target
    \/ alert.type = "below" /\ price < alert.target

\* if alert['type'] == 'above' and price >= alert['target']: triggered = True
\* elif alert['type'] == 'below' and price <= alert['target']: triggered = True
triggered(alert, price) ==
    \/ alert.type = "above" /\ price >= alert.target
    \/ alert.type = "below" /\ price <= alert.target

\* A gate that also shuts at the very instant of trial_ends.
trial_expired_inclusive(user, t) ==
    /\ ~user.premium
    /\ user.trial_ends.kind = "iso"
    /\ t >= user.trial_ends.at

\* if not user.get('premium'): if trial_ends: try: te = fromisoformat(...);
\*     if datetime.now() > te: continue; except: pass
\* trial_ends of kind "iso" is a string fromisoformat turns into a naive
\* datetime; with any other string (kind "offset": a UTC offset, which makes
\* the datetime aware and the comparison raise) the except clause passes.
trial_expired(user, t) ==
    /\ ~user.premium
    /\ user.trial_ends.kind = "iso"
    /\ t > user.trial_ends.at

\* os.getenv('TELEGRAM_CHAT_ID')
TELEGRAM_CHAT_ID == "chat_env"

\* chat_id = settings.get('telegram_chat_id') or os.getenv('TELEGRAM_CHAT_ID')
chat_id_of(user_settings) ==
    IF user_settings.telegram_chat_id # ""
    THEN user_settings.telegram_chat_id
    ELSE TELEGRAM_CHAT_ID

\* A dispatcher that notifies every user.
telegram_wanted_always(user_settings) ==
    TRUE

\* if settings.get('telegram_enabled'): chat_id = ...; if chat_id:
telegram_wanted(user_settings) ==
    /\ user_settings.telegram_enabled
    /\ chat_id_of(user_settings) # ""

(***************************************************************************)
(* NotificationDispatcher: send_telegram.                                  *)
(***************************************************************************)
\* What requests.post does: a response (of any HTTP status) or an exception.
PostResults == {"ok", "http_error", "raise"}

\* send_telegram(message, chat_id): False without a bot token or when the
\* post raises, True otherwise (the response is not looked at).
send_telegram(bot_token, post) ==
    IF ~bot_token THEN FALSE
    ELSE IF post = "raise" THEN FALSE
    ELSE TRUE

(***************************************************************************)
(* AlertStore: the supabase calls of the tick and of the handlers.         *)
(***************************************************************************)
\* A listing that leaves the filter on enabled out.
listEnabledAlerts_all(table) ==
    {[id |-> id,
      username |-> table[id].username,
      symbol |-> table[id].symbol,
      target |-> table[id].target,
      type |-> table[id].type] : id \in DOMAIN table}

\* supabase.table('alerts').select('*').eq('enabled', True).execute().data
listEnabledAlerts(table) ==
    {[id |-> id,
      username |-> table[id].username,
      symbol |-> table[id].symbol,
      target |-> table[id].target,
      type |-> table[id].type] : id \in {x \in DOMAIN table : table[x].enabled}}

\* A disabling update that is lost: the row keeps its enabled flag.
disableAlert_lost(table, id) == table

\* A disabling write that removes the row.
disableAlert_delete(table, id) ==
    [x \in DOMAIN table \ {id} |-> table[x]]

\* A disabling write that inserts the row when the id matches none.
disableAlert_upsert(table, id) ==
    [x \in DOMAIN table \cup {id} |->
        IF x \in DOMAIN table
        THEN IF x = id THEN [table[x] EXCEPT !.enabled = FALSE] ELSE table[x]
        ELSE [username |-> "", symbol |-> "", target |-> 0, type |-> "",
              enabled |-> FALSE]]

\* supabase.table('alerts').update({'enabled': False}).eq('id', alert['id'])
\* An update whose filter matches no row changes nothing and raises nothing.
disableAlert(table, id) ==
    IF id \in DOMAIN table
    THEN [table EXCEPT ![id].enabled = FALSE]
    ELSE table

\* supabase.table('alerts').insert({..., 'enabled': True})
insertAlert(table, id, username, symbol, target, type) ==
    [x \in DOMAIN table \cup {id} |->
        IF x = id
        THEN [username |-> username, symbol |-> symbol, target |-> target,
              type |-> type, enabled |-> TRUE]
        ELSE table[x]]

\* An update that also re-arms the alert.
updateAlert_rearm(table, id, target, type) ==
    IF id \in DOMAIN table
    THEN [table EXCEPT ![id].target = target, ![id].type = type,
                       ![id].enabled = TRUE]
    ELSE table

\* supabase.table('alerts').update({'target': target, 'type': alert_type})
\*     .eq('id', alert_id)
updateAlert(table, id, target, type) ==
    IF id \in DOMAIN table
    THEN [table EXCEPT ![id].target = target, ![id].type = type]
    ELSE table

\* supabase.table('alerts').update(updates).eq('id', alert_id), where updates
\* holds 'target' and 'type' only when the request gave a valid one
updateAlertFields(table, id, has_target, target, has_type, type) ==
    IF id \in DOMAIN table
    THEN [table EXCEPT
             ![id].target = IF has_target THEN target ELSE @,
             ![id].type = IF has_type THEN type ELSE @]
    ELSE table

\* supabase.table('alerts').delete().eq('id', alert_id)
deleteAlert(table, id) == [x \in DOMAIN table \ {id} |-> table[x]]

(***************************************************************************)
(* Scheduler: BackgroundScheduler with the interval job.                   *)
(***************************************************************************)
\* APScheduler's job default.
max_instances_default == 1

\* A scheduler that lets a second instance of the job start.
max_instances_two == max_instances_default + 1

\* add_job is called without max_instances: APScheduler's job default is 1,
\* a run that comes due while an instance of the job is executing is skipped.
max_instances == max_instances_default

Running == Cardinality({i \in Instances : tick[i].pc # "idle"})

\* A grouping that hands out one alert at a time, so the price is looked up
\* per alert.
alerts_by_symbol_each(listed, symbol) ==
    {CHOOSE a \in listed : a.symbol = symbol}

\* for symbol, symbol_alerts in alerts_by_symbol.items(): the alerts that are
\* handled with one price of the symbol
alerts_by_symbol(listed, symbol) == {a \in listed : a.symbol = symbol}

\* The locals of an instance of check_alerts_job that is not running. The
\* last five fields are history of the instance's current run: the distinct
\* symbols listed, the get_cached_price and get_stock_price calls per symbol,
\* the alerts send_telegram was called for, and what the last call returned.
NoReading == [ny |-> LocalTime(0, 0, 0), sydney |-> LocalTime(0, 0, 0)]

IdleTick ==
    [pc |-> "idle", clock |-> NoReading, listed |-> {}, group |-> {},
     symbol |-> "",
     price |-> NoPrice, cur |-> {}, chat_id |-> "",
     syms |-> {}, calls |-> [s \in Symbols |-> 0],
     fetches |-> [s \in Symbols |-> 0], attempted |-> {}, sent |-> "none"]

\* History of SpecCache before any call: the latest successful fetch of a
\* symbol (the price, when the call started and when the price came back),
\* whether the entry it stored has served a hit, and whether the latest call
\* for the symbol fetched and got nothing.
NoFetch == [price |-> NoPrice, started |-> 0, obtained |-> 0]

NoLog == [ok |-> NoFetch, served |-> FALSE, failed |-> FALSE]

NoCall ==
    [made |-> FALSE, symbol |-> "", at |-> 0, ret |-> NoPrice, fetched |-> 0,
     source |-> NoPrice, hadEntry |-> FALSE, entryTime |-> 0,
     unchanged |-> TRUE, prev |-> NoFetch, prevServed |-> FALSE,
     prevFailed |-> FALSE]

\* The threads that may be inside get_cached_price, and the locals of one
\* that is not.
Threads == {"t1", "t2"}

IdleCaller == [pc |-> "idle", symbol |-> "", price |-> NoPrice, seq |-> 0]

\* History of SpecCallers: calls entered, fetches made, the fetch whose price
\* each entry holds, and whether a store replaced the price of a later fetch.
NoRace ==
    [entered |-> 0, fetches |-> 0, stored |-> [s \in Symbols |-> 0],
     overwrote |-> FALSE]

\* No function is under test.
NoProbe == [fn |-> "none"]

\* History of SpecLookup before any request.
NoLookup ==
    [handler |-> "none", wanted |-> 0, fresh |-> 0, fetched |-> 0,
     freshFetched |-> 0, unstored |-> 0, cacheSame |-> TRUE]

\* The rows of users and user_settings: Ann on a trial with Telegram off, Bob
\* premium with Telegram on.
SeedUsers ==
    [u \in Users |->
        IF u = "ann"
        THEN [name |-> "Ann", premium |-> FALSE,
              trial_ends |-> [kind |-> "iso", at |-> 450]]
        ELSE [name |-> "Bob", premium |-> TRUE,
              trial_ends |-> [kind |-> "none", at |-> 0]]]

SeedSettings ==
    [u \in Users |->
        IF u = "ann"
        THEN [telegram_enabled |-> FALSE, telegram_chat_id |-> ""]
        ELSE [telegram_enabled |-> TRUE, telegram_chat_id |-> "chat_bob"]]

\* The program after start-up: empty tables but for the two users, an empty
\* cache, the first run of the job one interval away.
InitProgram ==
    /\ now = 0
    /\ nextRun = INTERVAL
    /\ alerts = [x \in {} |-> 0]
    /\ nextId = 1
    /\ users = SeedUsers
    /\ settings = SeedSettings
    /\ price_cache = [x \in {} |-> 0]
    /\ tick = [i \in Instances |-> IdleTick]
    /\ sends = [id \in 1..MaxAlerts |-> 0]
    /\ storeFailed = FALSE
    /\ lastCall = NoCall
    /\ fetchLog = [s \in Symbols |-> NoLog]
    /\ callers = [t \in Threads |-> IdleCaller]
    /\ race = NoRace
    /\ lookup = NoLookup

Init == InitProgram /\ probe = NoProbe

(***************************************************************************)
(* check_alerts_job, one action per store or network call.                 *)
(***************************************************************************)
\* An exception that costs the instance only the alert it was handling.
Abort_resume(i) ==
    /\ tick' = [tick EXCEPT ![i].pc = "symbols", ![i].group = {},
                            ![i].cur = {}]
    /\ storeFailed' = TRUE

\* An instance that an exception leaves dead in the scheduler's worker.
Abort_uncaught(i) ==
    /\ tick' = [tick EXCEPT ![i].pc = "raised"]
    /\ storeFailed' = TRUE

\* A store call raises, or a row lacks a key or holds a value of the wrong
\* type: except Exception as e: print(...), and check_alerts_job returns from
\* where it is.
Abort(i) ==
    /\ tick' = [tick EXCEPT ![i] = IdleTick]
    /\ storeFailed' = TRUE

\* The job comes due and an instance starts: it reads the clock in the two
\* zones.
TickStart(i) ==
    /\ now >= nextRun
    /\ Running < max_instances
    /\ tick[i].pc = "idle"
    /\ \A j \in Instances : j < i => tick[j].pc # "idle"
    /\ nextRun' = nextRun + INTERVAL
    /\ \E r \in ClockReadings :
           tick' = [tick EXCEPT ![i] = [IdleTick EXCEPT !.pc = "gate",
                                                       !.clock = r]]
    /\ UNCHANGED <<now, alerts, nextId, users, settings, price_cache, sends,
                   storeFailed>>
    /\ UNCHANGED auxVars

\* The market gate, the listing of the enabled alerts and their grouping by
\* symbol. With the markets closed, a failed listing or no enabled alert the
\* instance returns at once.
Gate(i) ==
    /\ tick[i].pc = "gate"
    /\ \E ok \in BOOLEAN :
        IF markets_closed(tick[i].clock.ny, tick[i].clock.sydney)
        THEN /\ ok
             /\ tick' = [tick EXCEPT ![i] = IdleTick]
             /\ UNCHANGED storeFailed
        ELSE IF ~ok
        THEN Abort(i)
        ELSE LET all_alerts == listEnabledAlerts(alerts)
             IN  /\ UNCHANGED storeFailed
                 /\ IF all_alerts = {}
                    THEN tick' = [tick EXCEPT ![i] = IdleTick]
                    ELSE tick' = [tick EXCEPT ![i] =
                             [IdleTick EXCEPT
                                 !.pc = "symbols",
                                 !.listed = all_alerts,
                                 !.syms = {a.symbol : a \in all_alerts}]]
    /\ UNCHANGED <<now, nextRun, alerts, nextId, users, settings, price_cache,
                   sends>>
    /\ UNCHANGED auxVars

\* The next symbol of alerts_by_symbol, the price source answering q:
\* price = get_cached_price(symbol); if not price: continue
NextSymbolOf(i, symbol, q) ==
    /\ tick[i].pc = "symbols"
    /\ symbol \in {a.symbol : a \in tick[i].listed}
    /\ LET r == get_cached_price(price_cache, symbol, now, q, now)
           symbol_alerts == alerts_by_symbol(tick[i].listed, symbol)
       IN  /\ price_cache' = r.cache
           /\ IF not_price(r.ret)
              THEN tick' = [tick EXCEPT
                       ![i].listed = tick[i].listed \ symbol_alerts,
                       ![i].calls[symbol] = @ + 1,
                       ![i].fetches[symbol] = @ + r.fetched]
              ELSE tick' = [tick EXCEPT
                       ![i].pc = "alerts",
                       ![i].listed = tick[i].listed \ symbol_alerts,
                       ![i].group = symbol_alerts,
                       ![i].symbol = symbol,
                       ![i].price = r.ret,
                       ![i].calls[symbol] = @ + 1,
                       ![i].fetches[symbol] = @ + r.fetched]
    /\ UNCHANGED <<now, nextRun, alerts, nextId, users, settings, sends,
                   storeFailed>>

NextSymbol(i) ==
    /\ \E symbol \in Symbols, q \in Quotes : NextSymbolOf(i, symbol, q)
    /\ UNCHANGED auxVars

\* A tick that disables the alert of an owner it cannot find.
MissingRows_disable(i, alert) ==
    tick' = [tick EXCEPT ![i].pc = "disable",
                         ![i].group = tick[i].group \ {alert},
                         ![i].cur = {alert}]

\* if not settings_result.data or not user_result.data: continue
MissingRows(i, alert) ==
    tick' = [tick EXCEPT ![i].group = tick[i].group \ {alert}]

\* The next alert of symbol_alerts: the trigger test and, for a triggered
\* alert, the reads of user_settings and users and the eligibility gate.
EvalAlert(i) ==
    /\ tick[i].pc = "alerts"
    /\ \E alert \in tick[i].group, ok \in BOOLEAN :
        LET rest == tick[i].group \ {alert}
            username == alert.username
            skip == tick' = [tick EXCEPT ![i].group = rest]
        IN  IF ~triggered(alert, tick[i].price)
            THEN skip /\ UNCHANGED storeFailed
            ELSE IF ~ok
            THEN Abort(i)
            ELSE /\ UNCHANGED storeFailed
                 /\ IF username \notin DOMAIN settings
                       \/ username \notin DOMAIN users
                    THEN MissingRows(i, alert)
                    ELSE IF trial_expired(users[username], now)
                    THEN skip
                    ELSE IF telegram_wanted(settings[username])
                    THEN tick' = [tick EXCEPT
                             ![i].pc = "send",
                             ![i].group = rest,
                             ![i].cur = {alert},
                             ![i].chat_id = chat_id_of(settings[username])]
                    ELSE tick' = [tick EXCEPT
                             ![i].pc = "disable",
                             ![i].group = rest,
                             ![i].cur = {alert}]
    /\ UNCHANGED <<now, nextRun, alerts, nextId, users, settings, price_cache,
                   sends>>
    /\ UNCHANGED auxVars

\* All alerts of the symbol are handled: on to the next symbol.
GroupDone(i) ==
    /\ tick[i].pc = "alerts"
    /\ tick[i].group = {}
    /\ tick' = [tick EXCEPT ![i].pc = "symbols", ![i].symbol = "",
                            ![i].price = NoPrice]
    /\ UNCHANGED <<now, nextRun, alerts, nextId, users, settings, price_cache,
                   sends, storeFailed>>
    /\ UNCHANGED auxVars

\* msg = f"""... {user['name']} ... {alert['target']:.2f} ...""", which raises
\* on a row without a name or a target that is not a number, then
\* send_telegram(msg, chat_id); its result is dropped
Send(i) ==
    /\ tick[i].pc = "send"
    /\ \E alert \in tick[i].cur, bot_token \in BOOLEAN, post \in PostResults,
          ok \in BOOLEAN :
        IF ~ok
        THEN Abort(i) /\ bot_token /\ post = "ok" /\ UNCHANGED sends
        ELSE /\ sends' = [sends EXCEPT ![alert.id] = @ + 1]
             /\ tick' = [tick EXCEPT
                    ![i].pc = "disable",
                    ![i].attempted = @ \cup {alert.id},
                    ![i].sent = IF send_telegram(bot_token, post)
                                THEN "True" ELSE "False"]
             /\ UNCHANGED storeFailed
    /\ UNCHANGED <<now, nextRun, alerts, nextId, users, settings, price_cache>>
    /\ UNCHANGED auxVars

\* supabase.table('alerts').update({'enabled': False}).eq('id', alert['id'])
Disable(i) ==
    /\ tick[i].pc = "disable"
    /\ \E alert \in tick[i].cur, ok \in BOOLEAN :
        IF ~ok
        THEN Abort(i) /\ UNCHANGED alerts
        ELSE /\ alerts' = disableAlert(alerts, alert.id)
             /\ tick' = [tick EXCEPT ![i].pc = "alerts", ![i].cur = {},
                                     ![i].chat_id = "", ![i].sent = "none"]
             /\ UNCHANGED storeFailed
    /\ UNCHANGED <<now, nextRun, nextId, users, settings, price_cache, sends>>
    /\ UNCHANGED auxVars

\* The loop over alerts_by_symbol is exhausted: check_alerts_job returns.
TickReturn(i) ==
    /\ tick[i].pc = "symbols"
    /\ tick[i].listed = {}
    /\ tick' = [tick EXCEPT ![i] = IdleTick]
    /\ UNCHANGED <<now, nextRun, alerts, nextId, users, settings, price_cache,
                   sends, storeFailed>>
    /\ UNCHANGED auxVars

\* The job comes due while an instance is executing: the run is skipped.
SkipRun ==
    /\ now >= nextRun
    /\ Running >= max_instances
    /\ nextRun' = nextRun + INTERVAL
    /\ UNCHANGED <<now, alerts, nextId, users, settings, price_cache, tick,
                   sends, storeFailed>>
    /\ UNCHANGED auxVars

\* Time passes (between runs, or inside a blocking call of a tick).
Elapse ==
    /\ now < nextRun
    /\ now + TimeUnit <= MaxTime
    /\ now' = now + TimeUnit
    /\ UNCHANGED <<nextRun, alerts, nextId, users, settings, price_cache, tick,
                   sends, storeFailed>>
    /\ UNCHANGED auxVars

(***************************************************************************)
(* Request handlers on the alerts table.                                   *)
(***************************************************************************)
\* add_alert, POST: refused for an expired free user and for a free user at
\* the limit, else the alert is inserted enabled.
add_alert(username, symbol, target, type) ==
    /\ nextId <= MaxAlerts
    /\ username \in DOMAIN users
    /\ LET alert_count ==
               Cardinality({x \in DOMAIN alerts : alerts[x].username = username})
           is_premium == users[username].premium
       IN  /\ ~(~is_premium /\ trial_expired(users[username], now))
           /\ ~(~is_premium /\ alert_count >= alert_limit)
    /\ alerts' = insertAlert(alerts, nextId, username, symbol, target, type)
    /\ nextId' = nextId + 1
    /\ UNCHANGED <<now, nextRun, users, settings, price_cache, tick, sends,
                   storeFailed>>
    /\ UNCHANGED auxVars

\* edit_alert, POST
edit_alert(alert_id, target, type) ==
    /\ alert_id \in DOMAIN alerts
    /\ alerts' = updateAlert(alerts, alert_id, target, type)
    /\ alerts' # alerts
    /\ UNCHANGED <<now, nextRun, nextId, users, settings, price_cache, tick,
                   sends, storeFailed>>
    /\ UNCHANGED auxVars

\* delete_alert
delete_alert(alert_id) ==
    /\ alert_id \in DOMAIN alerts
    /\ alerts' = deleteAlert(alerts, alert_id)
    /\ UNCHANGED <<now, nextRun, nextId, users, settings, price_cache, tick,
                   sends, storeFailed>>
    /\ UNCHANGED auxVars

\* quick_update_alert: target = data.get('target'), alert_type =
\* data.get('type'). A target that is given must be positive (else 400); the
\* type is taken only when it is 'above' or 'below'; with nothing to update
\* the answer is 400. has_target is FALSE when the JSON has no target.
quick_update_alert(alert_id, has_target, target, type) ==
    /\ ~(has_target /\ target <= 0)
    /\ LET has_type == type \in {"above", "below"}
       IN  /\ has_target \/ has_type
           /\ alerts' = updateAlertFields(alerts, alert_id, has_target, target,
                                          has_type, type)
    /\ alerts' # alerts
    /\ UNCHANGED <<now, nextRun, nextId, users, settings, price_cache, tick,
                   sends, storeFailed>>
    /\ UNCHANGED auxVars

Next ==
    \/ \E i \in Instances : TickStart(i)
    \/ \E i \in Instances : Gate(i)
    \/ \E i \in Instances : NextSymbol(i)
    \/ \E i \in Instances : EvalAlert(i)
    \/ \E i \in Instances : GroupDone(i)
    \/ \E i \in Instances : Send(i)
    \/ \E i \in Instances : Disable(i)
    \/ \E i \in Instances : TickReturn(i)
    \/ SkipRun
    \/ Elapse
    \/ \E u \in Users, s \in Symbols, tg \in Targets, ty \in Types :
           add_alert(u, s, tg, ty)
    \/ \E id \in 1..MaxAlerts, tg \in Targets, ty \in Types :
           edit_alert(id, tg, ty)
    \/ \E id \in 1..MaxAlerts : delete_alert(id)

Spec == Init /\ [][Next]_vars

(***************************************************************************)
(* SpecCache: get_cached_price called one call after the other.            *)
(***************************************************************************)
\* One call of get_cached_price(symbol) at time now; a fetch takes lat
\* seconds, so the store reads the clock lat seconds after the check did.
CacheCall(symbol, q, lat) ==
    /\ now + lat <= MaxCacheTime
    /\ LET r == get_cached_price(price_cache, symbol, now, q, now + lat)
           log == fetchLog[symbol]
           had == symbol \in DOMAIN price_cache
       IN  /\ r.fetched = 0 => lat = 0
           /\ price_cache' = r.cache
           /\ now' = now + lat
           /\ lastCall' =
                  [made |-> TRUE, symbol |-> symbol, at |-> now,
                   ret |-> r.ret, fetched |-> r.fetched,
                   source |-> IF r.fetched = 0 THEN NoPrice
                              ELSE get_stock_price(symbol, q),
                   hadEntry |-> had,
                   entryTime |-> IF had THEN price_cache[symbol][2] ELSE 0,
                   unchanged |-> (r.cache = price_cache),
                   prev |-> log.ok, prevServed |-> log.served,
                   prevFailed |-> log.failed]
           /\ fetchLog' =
                  [fetchLog EXCEPT ![symbol] =
                      IF r.fetched = 0
                      THEN [@ EXCEPT !.served = TRUE, !.failed = FALSE]
                      ELSE IF get_stock_price(symbol, q) # NoPrice
                      THEN [ok |-> [price |-> get_stock_price(symbol, q),
                                    started |-> now, obtained |-> now + lat],
                            served |-> FALSE, failed |-> FALSE]
                      ELSE [@ EXCEPT !.failed = TRUE]]
    /\ UNCHANGED <<nextRun, alerts, nextId, users, settings, tick, sends,
                   storeFailed, callers, race, lookup, probe>>

\* Time passes between two calls.
CacheElapse ==
    /\ now + CacheTick <= MaxCacheTime
    /\ now' = now + CacheTick
    /\ UNCHANGED <<nextRun, alerts, nextId, users, settings, price_cache, tick,
                   sends, storeFailed>>
    /\ UNCHANGED auxVars

NextCache ==
    \/ \E s \in Symbols, q \in Quotes, lat \in {0, CacheTick} :
           CacheCall(s, q, lat)
    \/ CacheElapse

SpecCache == Init /\ [][NextCache]_vars

(***************************************************************************)
(* SpecCallers: two threads in get_cached_price, one step per line.        *)
(***************************************************************************)
\* A thread calls get_cached_price(symbol).
CallerEnter(t, symbol) ==
    /\ callers[t].pc = "idle"
    /\ race.entered < MaxCalls
    /\ callers' = [callers EXCEPT ![t] = [IdleCaller EXCEPT !.pc = "check",
                                                           !.symbol = symbol]]
    /\ race' = [race EXCEPT !.entered = @ + 1]
    /\ UNCHANGED <<now, nextRun, alerts, nextId, users, settings, price_cache,
                   tick, sends, storeFailed, lastCall, fetchLog, lookup, probe>>

\* if symbol in _price_cache: ... if time.time() - cached_time <
\* CACHE_DURATION: return cached_price; else the thread goes on to fetch.
CallerCheck(t) ==
    /\ callers[t].pc = "check"
    /\ callers' =
           [callers EXCEPT ![t] =
               IF CacheHit(price_cache, callers[t].symbol, now)
               THEN IdleCaller
               ELSE [@ EXCEPT !.pc = "fetch"]]
    /\ UNCHANGED <<now, nextRun, alerts, nextId, users, settings, price_cache,
                   tick, sends, storeFailed, lastCall, fetchLog, race, lookup, probe>>

\* price, _ = get_stock_price(symbol)
CallerFetch(t, q) ==
    /\ callers[t].pc = "fetch"
    /\ callers' =
           [callers EXCEPT ![t] =
               [@ EXCEPT !.pc = "store",
                         !.price = get_stock_price(callers[t].symbol, q),
                         !.seq = race.fetches + 1]]
    /\ race' = [race EXCEPT !.fetches = @ + 1]
    /\ UNCHANGED <<now, nextRun, alerts, nextId, users, settings, price_cache,
                   tick, sends, storeFailed, lastCall, fetchLog, lookup, probe>>

\* if price: _price_cache[symbol] = (price, time.time()); return price
CallerStore(t) ==
    /\ callers[t].pc = "store"
    /\ LET me == callers[t]
       IN  /\ price_cache' = CacheStore(price_cache, me.symbol, me.price, now)
           /\ race' =
                  IF me.price = NoPrice
                  THEN race
                  ELSE [race EXCEPT
                           !.stored[me.symbol] = me.seq,
                           !.overwrote = @ \/ me.seq < race.stored[me.symbol]]
    /\ callers' = [callers EXCEPT ![t] = IdleCaller]
    /\ UNCHANGED <<now, nextRun, alerts, nextId, users, settings, tick, sends,
                   storeFailed, lastCall, fetchLog, lookup, probe>>

NextCallers ==
    \/ \E t \in Threads, s \in Symbols : CallerEnter(t, s)
    \/ \E t \in Threads : CallerCheck(t)
    \/ \E t \in Threads, q \in Quotes : CallerFetch(t, q)
    \/ \E t \in Threads : CallerStore(t)
    \/ CacheElapse

SpecCallers == Init /\ [][NextCallers]_vars

(***************************************************************************)
(* SpecLookup: the price lookups of the request handlers.                  *)
(***************************************************************************)
\* The tick's call, price = get_cached_price(symbol), which fills the cache.
TickLookup(symbol, q) ==
    /\ price_cache' = get_cached_price(price_cache, symbol, now, q, now).cache
    /\ price_cache' # price_cache
    /\ UNCHANGED <<now, nextRun, alerts, nextId, users, settings, tick, sends,
                   storeFailed>>
    /\ UNCHANGED auxVars

\* A lookup that goes through the cache.
dashboard_price_cached(c, symbol, t, q) == get_cached_price(c, symbol, t, q, t)

\* dashboard: price, change_pct = get_stock_price(a['symbol'])
dashboard_price(c, symbol, t, q) ==
    [ret |-> get_stock_price(symbol, q), cache |-> c, fetched |-> 1]

\* The loop of dashboard over the user's alerts, in the order of their ids,
\* the price source answering qs[symbol]: the cache afterwards, the lookups
\* whose symbol had a fresh entry, the get_stock_price calls made, those made
\* for a symbol with a fresh entry, and the prices fetched that the cache
\* does not hold afterwards.
RECURSIVE dashboard_prices(_, _, _, _, _)
dashboard_prices(ids, table, c, t, qs) ==
    IF ids = {}
    THEN [cache |-> c, fresh |-> 0, fetched |-> 0, freshFetched |-> 0,
          unstored |-> 0]
    ELSE LET id == CHOOSE x \in ids : \A y \in ids : x <= y
             symbol == table[id].symbol
             hit == CacheHit(c, symbol, t)
             r == dashboard_price(c, symbol, t, qs[symbol])
             rest == dashboard_prices(ids \ {id}, table, r.cache, t, qs)
             kept == /\ symbol \in DOMAIN r.cache
                     /\ r.cache[symbol] = <<r.ret, t>>
         IN  [cache |-> rest.cache,
              fresh |-> rest.fresh + (IF hit THEN 1 ELSE 0),
              fetched |-> rest.fetched + r.fetched,
              freshFetched |->
                  rest.freshFetched + (IF hit THEN r.fetched ELSE 0),
              unstored |->
                  rest.unstored +
                  (IF r.fetched = 1 /\ r.ret # NoPrice /\ ~kept
                   THEN 1 ELSE 0)]

\* The answers of the price source in which at most one market has data or
\* raises.
OneMarketQuotes == {q \in Quotes : q.base.kind = "empty" \/ q.ax.kind = "empty"}

\* The answers in which the first market asked has data or has none, and the
\* second has none.
FirstMarketQuotes ==
    {q \in Quotes : q.base.kind # "raise" /\ q.ax.kind = "empty"}

\* dashboard, GET, for a logged-in user.
dashboard(username, qs) ==
    /\ username \in DOMAIN users
    /\ LET mine == {x \in DOMAIN alerts : alerts[x].username = username}
           r == dashboard_prices(mine, alerts, price_cache, now, qs)
       IN  /\ price_cache' = r.cache
           /\ lookup' =
                  [handler |-> "dashboard", wanted |-> Cardinality(mine),
                   fresh |-> r.fresh, fetched |-> r.fetched,
                   freshFetched |-> r.freshFetched, unstored |-> r.unstored,
                   cacheSame |-> (r.cache = price_cache)]
    /\ UNCHANGED <<now, nextRun, alerts, nextId, users, settings, tick, sends,
                   storeFailed, lastCall, fetchLog, callers, race, probe>>

\* get_price, GET /price/<symbol>: yf.Ticker(symbol).history(...) and
\* yf.Ticker(symbol + '.AX').history(...), one result per market that has
\* data.
market_results(symbol, q) ==
    (IF q.base.kind = "price"
     THEN {[market |-> "US", price |-> q.base.close]} ELSE {})
    \cup
    (IF q.ax.kind = "price"
     THEN {[market |-> "Australia", price |-> q.ax.close]} ELSE {})

get_price(symbol, q) ==
    /\ lookup' =
           [handler |-> "get_price", wanted |-> 1,
            fresh |-> IF CacheHit(price_cache, symbol, now) THEN 1 ELSE 0,
            fetched |-> 2,
            freshFetched |->
                IF CacheHit(price_cache, symbol, now) THEN 2 ELSE 0,
            unstored |-> Cardinality(market_results(symbol, q)),
            cacheSame |-> TRUE]
    /\ UNCHANGED <<now, nextRun, alerts, nextId, users, settings, price_cache,
                   tick, sends, storeFailed, lastCall, fetchLog, callers,
                   race, probe>>

\* Time passes between two requests.
LookupElapse ==
    /\ now + CacheTick <= MaxLookupTime
    /\ now' = now + CacheTick
    /\ UNCHANGED <<nextRun, alerts, nextId, users, settings, price_cache, tick,
                   sends, storeFailed>>
    /\ UNCHANGED auxVars

NextLookup ==
    \/ \E s \in Symbols, q \in OneMarketQuotes : TickLookup(s, q)
    \/ \E u \in Users, qs \in [Symbols -> FirstMarketQuotes] :
           dashboard(u, qs)
    \/ \E s \in Symbols, q \in OneMarketQuotes : get_price(s, q)
    \/ \E u \in Users, s \in Symbols, tg \in Targets :
           add_alert(u, s, tg, "above")
    \/ LookupElapse

SpecLookup == Init /\ [][NextLookup]_vars

(***************************************************************************)
(* SpecCalendar: the head of check_alerts_job at every clock reading.      *)
(***************************************************************************)
\* An instance has just read the clock, at any instant of the week; Bob has
\* one enabled alert.
InitCalendar ==
    /\ now = 0
    /\ nextRun = INTERVAL
    /\ alerts = insertAlert([x \in {} |-> 0], 1, "bob", "AAPL", 100, "above")
    /\ nextId = 2
    /\ users = SeedUsers
    /\ settings = SeedSettings
    /\ price_cache = [x \in {} |-> 0]
    /\ \E r \in AllClockReadings :
           tick = [i \in Instances |->
                      IF i = 1
                      THEN [IdleTick EXCEPT !.pc = "gate", !.clock = r]
                      ELSE IdleTick]
    /\ sends = [id \in 1..MaxAlerts |-> 0]
    /\ storeFailed = FALSE
    /\ lastCall = NoCall
    /\ fetchLog = [s \in Symbols |-> NoLog]
    /\ callers = [t \in Threads |-> IdleCaller]
    /\ race = NoRace
    /\ lookup = NoLookup
    /\ probe = NoProbe

\* The two assignments at the head of the job: us_open = (...) and
\* asx_open = (...), with the values they give recorded.
Sessions(i) ==
    /\ tick[i].pc = "gate"
    /\ probe = NoProbe
    /\ probe' = [fn |-> "sessions",
                 ny |-> tick[i].clock.ny,
                 sydney |-> tick[i].clock.sydney,
                 us |-> us_open(tick[i].clock.ny),
                 asx |-> asx_open(tick[i].clock.sydney)]
    /\ UNCHANGED <<now, nextRun, alerts, nextId, users, settings, price_cache,
                   tick, sends, storeFailed, lastCall, fetchLog, callers,
                   race, lookup>>

NextCalendar ==
    \/ \E i \in Instances : Sessions(i)
    \/ \E i \in Instances : Gate(i)

SpecCalendar == InitCalendar /\ [][NextCalendar]_vars

(***************************************************************************)
(* SpecTrigger: the trigger test of the tick on every alert and price.     *)
(***************************************************************************)
\* alert['type'] is whatever the form of add_alert or edit_alert posted.
AnyTypes == {"above", "below", "sideways", ""}

\* Targets and prices on both sides of each other, in cents.
AnyTargets == {5000, 10000}

AnyPrices == (4998..5002) \cup (9998..10002)

InitTrigger ==
    /\ InitProgram
    /\ probe \in [fn : {"triggered"}, type : AnyTypes, target : AnyTargets,
                  price : AnyPrices, done : {FALSE}, out : {FALSE}]

\* triggered = False; if ...: triggered = True; elif ...: triggered = True
Evaluate ==
    /\ probe.fn = "triggered"
    /\ ~probe.done
    /\ probe' = [probe EXCEPT
                    !.done = TRUE,
                    !.out = triggered([type |-> probe.type,
                                       target |-> probe.target],
                                      probe.price)]
    /\ UNCHANGED <<now, nextRun, alerts, nextId, users, settings, price_cache,
                   tick, sends, storeFailed, lastCall, fetchLog, callers,
                   race, lookup>>

NextTrigger == Evaluate

SpecTrigger == InitTrigger /\ [][NextTrigger]_vars

(***************************************************************************)
(* SpecEligibility: a triggered alert in front of the eligibility gate.    *)
(***************************************************************************)
\* What the store may hold in users.trial_ends: nothing, the naive ISO
\* string signup writes, a timestamp with a UTC offset, as a column of
\* type timestamptz gives it back, or a string fromisoformat rejects.
TrialEndsKinds == {"none", "iso", "offset", "garbage"}

\* An instance holds a price of 100 for AAPL and is about to evaluate Ann's
\* alert above 100; Ann's rows in users and user_settings are any rows, and
\* the clock is before, at or after her trial_ends of 450.
InitEligibility ==
    /\ now \in {0, 450, 2 * INTERVAL}
    /\ nextRun = 3 * INTERVAL
    /\ alerts = insertAlert([x \in {} |-> 0], 1, "ann", "AAPL", 100, "above")
    /\ nextId = 2
    /\ \E premium \in BOOLEAN, kind \in TrialEndsKinds :
           users = [SeedUsers EXCEPT
                       !["ann"].premium = premium,
                       !["ann"].trial_ends =
                           [kind |-> kind,
                            at |-> IF kind \in {"iso", "offset"}
                                   THEN 450 ELSE 0]]
    /\ \E enabled \in BOOLEAN, chat_id \in {"", "chat_ann"} :
           settings = [SeedSettings EXCEPT
                          !["ann"] = [telegram_enabled |-> enabled,
                                      telegram_chat_id |-> chat_id]]
    /\ price_cache = CachePut([x \in {} |-> 0], "AAPL", 100, now)
    /\ tick = [i \in Instances |->
                  IF i = 1
                  THEN [IdleTick EXCEPT
                           !.pc = "alerts",
                           !.group = listEnabledAlerts(alerts),
                           !.symbol = "AAPL",
                           !.price = 100,
                           !.syms = {"AAPL"},
                           !.calls["AAPL"] = 1,
                           !.fetches["AAPL"] = 1]
                  ELSE IdleTick]
    /\ sends = [id \in 1..MaxAlerts |-> 0]
    /\ storeFailed = FALSE
    /\ lastCall = NoCall
    /\ fetchLog = [s \in Symbols |-> NoLog]
    /\ callers = [t \in Threads |-> IdleCaller]
    /\ race = NoRace
    /\ lookup = NoLookup
    /\ probe = NoProbe

NextEligibility ==
    \/ \E i \in Instances : EvalAlert(i)
    \/ \E i \in Instances : GroupDone(i)
    \/ \E i \in Instances : Send(i)
    \/ \E i \in Instances : Disable(i)
    \/ \E i \in Instances : TickReturn(i)

SpecEligibility == InitEligibility /\ [][NextEligibility]_vars

(***************************************************************************)
(* SpecEdits: the tick next to the handlers that write the alerts table,   *)
(* with the targets and types a request can carry.                         *)
(***************************************************************************)
\* float(request.form.get('target')) of a posted number: zero and negative
\* numbers are numbers too.
PostedTargets == {0, 100}
\* The type a request carries; "sideways" stands for every value that is
\* neither 'above' nor 'below' (a missing one included).
PostedTypes == {"above", "below", "sideways"}

NextEdits ==
    \/ \E i \in Instances : TickStart(i)
    \/ \E i \in Instances : Gate(i)
    \/ \E i \in Instances : NextSymbol(i)
    \/ \E i \in Instances : EvalAlert(i)
    \/ \E i \in Instances : GroupDone(i)
    \/ \E i \in Instances : Send(i)
    \/ \E i \in Instances : Disable(i)
    \/ \E i \in Instances : TickReturn(i)
    \/ SkipRun
    \/ Elapse
    \/ \E tg \in PostedTargets, ty \in Types : add_alert("bob", "AAPL", tg, ty)
    \/ \E id \in 1..MaxAlerts, has_target \in BOOLEAN, tg \in PostedTargets,
          ty \in PostedTypes :
           quick_update_alert(id, has_target, tg, ty)
    \/ \E id \in 1..MaxAlerts, tg \in PostedTargets, ty \in Types :
           edit_alert(id, tg, ty)

SpecEdits == Init /\ [][NextEdits]_vars

(***************************************************************************)
(* SpecQuote: get_stock_price on every symbol and every pair of frames.    *)
(***************************************************************************)
AnySymbols == {"AAPL", "BHP", "BHP.AX"}
\* The last Open of a frame.
AnyOpens == {0, 100}

AnyYfResults ==
    {YfEmpty, YfRaise}
        \cup {[kind |-> "price", close |-> p, open |-> o] :
                  p \in Prices, o \in AnyOpens}

AnyQuotes == [base : AnyYfResults, ax : AnyYfResults]

InitQuote ==
    /\ InitProgram
    /\ probe \in [fn : {"get_stock_price"}, symbol : AnySymbols, q : AnyQuotes,
                   done : {FALSE}, tried : {<<>>}, ret : {NoPrice}]

\* price, change_pct = get_stock_price(symbol)
Quote ==
    /\ probe.fn = "get_stock_price"
    /\ ~probe.done
    /\ probe' = [probe EXCEPT
                    !.done = TRUE,
                    !.tried = history_calls(probe.symbol, probe.q),
                    !.ret = get_stock_price(probe.symbol, probe.q)]
    /\ UNCHANGED <<now, nextRun, alerts, nextId, users, settings, price_cache,
                   tick, sends, storeFailed, lastCall, fetchLog, callers, race,
                   lookup>>

NextQuote == Quote

SpecQuote == InitQuote /\ [][NextQuote]_vars

(***************************************************************************)
(* SpecRetry: ticks one after the other, with a record of the symbols      *)
(* whose latest fetch by a tick gave no price.                             *)
(***************************************************************************)
\* No tick has fetched yet: failed holds the symbols whose latest fetch by a
\* tick gave no price, retried those a tick fetched again after that.
NoRetry == [fn |-> "retry", failed |-> {}, retried |-> {}]

InitRetry == InitProgram /\ probe = NoRetry

\* NextSymbol, with the outcome of the fetch written to the record.
NextSymbolLogged(i) ==
    /\ \E symbol \in Symbols, q \in Quotes :
        /\ NextSymbolOf(i, symbol, q)
        /\ LET fetched == tick'[i].fetches[symbol] > tick[i].fetches[symbol]
               absent == tick'[i].pc = "symbols"
           IN  probe' = [probe EXCEPT
                   !.failed = IF ~fetched THEN @
                              ELSE IF absent THEN @ \cup {symbol}
                              ELSE @ \ {symbol},
                   !.retried = IF fetched /\ symbol \in probe.failed
                               THEN @ \cup {symbol} ELSE @]
    /\ UNCHANGED <<lastCall, fetchLog, callers, race, lookup>>

NextRetry ==
    \/ \E i \in Instances : TickStart(i)
    \/ \E i \in Instances : Gate(i)
    \/ \E i \in Instances : NextSymbolLogged(i)
    \/ \E i \in Instances : EvalAlert(i)
    \/ \E i \in Instances : GroupDone(i)
    \/ \E i \in Instances : Send(i)
    \/ \E i \in Instances : Disable(i)
    \/ \E i \in Instances : TickReturn(i)
    \/ SkipRun
    \/ Elapse
    \/ \E s \in Symbols : add_alert("bob", s, 100, "above")

SpecRetry == InitRetry /\ [][NextRetry]_vars

(***************************************************************************)
(* SpecOrphans: triggered alerts whose owners may lack a row in users or   *)
(* in user_settings.                                                       *)
(***************************************************************************)
\* signup inserts the users row and the user_settings row in two calls, and
\* rows can be removed in the store outside the program: each table holds
\* the rows of any subset of the users. An instance holds a price for AAPL
\* and is about to evaluate an alert of Ann and an alert of Bob above 100.
InitOrphans ==
    /\ now = INTERVAL
    /\ nextRun = 2 * INTERVAL
    /\ alerts = insertAlert(
                    insertAlert([x \in {} |-> 0], 1, "ann", "AAPL", 100, "above"),
                    2, "bob", "AAPL", 100, "above")
    /\ nextId = 3
    /\ \E U \in SUBSET Users : users = [u \in U |-> SeedUsers[u]]
    /\ \E S \in SUBSET Users : settings = [u \in S |-> SeedSettings[u]]
    /\ \E p \in Prices :
        /\ price_cache = CachePut([x \in {} |-> 0], "AAPL", p, now)
        /\ tick = [i \in Instances |->
                      IF i = 1
                      THEN [IdleTick EXCEPT
                               !.pc = "alerts",
                               !.clock = [ny |-> LocalTime(1, 9, 30),
                                          sydney |-> LocalTime(2, 1, 30)],
                               !.group = listEnabledAlerts(alerts),
                               !.symbol = "AAPL",
                               !.price = p,
                               !.syms = {"AAPL"},
                               !.calls = [s \in Symbols |->
                                             IF s = "AAPL" THEN 1 ELSE 0],
                               !.fetches = [s \in Symbols |->
                                               IF s = "AAPL" THEN 1 ELSE 0]]
                      ELSE IdleTick]
    /\ sends = [id \in 1..MaxAlerts |-> 0]
    /\ storeFailed = FALSE
    /\ lastCall = NoCall
    /\ fetchLog = [s \in Symbols |-> NoLog]
    /\ callers = [t \in Threads |-> IdleCaller]
    /\ race = NoRace
    /\ lookup = NoLookup
    /\ probe = NoProbe

NextOrphans ==
    \/ \E i \in Instances : EvalAlert(i)
    \/ \E i \in Instances : GroupDone(i)
    \/ \E i \in Instances : Send(i)
    \/ \E i \in Instances : Disable(i)
    \/ \E i \in Instances : TickReturn(i)

SpecOrphans == InitOrphans /\ [][NextOrphans]_vars

(***************************************************************************)
(* SpecAddRace: two add_alert requests of one user, each a read of the     *)
(* user's alerts and row followed by the insert.                           *)
(***************************************************************************)
\* The locals of an add_alert request that is not running.
IdleRequest ==
    [pc |-> "idle", alert_count |-> 0, is_premium |-> FALSE,
     trial_expired |-> FALSE, symbol |-> "", type |-> ""]

\* The alerts a user has before the requests: one short of the limit.
OwnedBefore == alert_limit - 1

\* Ann, not premium, owns nine alerts; her trial_ends of 450 lies ahead or
\* behind; no request is running.
InitAddRace ==
    /\ now \in {0, 2 * INTERVAL}
    /\ nextRun = 3 * INTERVAL
    /\ alerts = [id \in 1..OwnedBefore |->
                    [username |-> "ann", symbol |-> "AAPL", target |-> 100,
                     type |-> "above", enabled |-> TRUE]]
    /\ nextId = OwnedBefore + 1
    /\ users = SeedUsers
    /\ settings = SeedSettings
    /\ price_cache = [x \in {} |-> 0]
    /\ tick = [i \in Instances |-> IdleTick]
    /\ sends = [id \in 1..MaxAlerts |-> 0]
    /\ storeFailed = FALSE
    /\ lastCall = NoCall
    /\ fetchLog = [s \in Symbols |-> NoLog]
    /\ callers = [t \in Threads |-> IdleCaller]
    /\ race = NoRace
    /\ lookup = NoLookup
    /\ probe = [fn |-> "add_alert", req |-> [t \in Threads |-> IdleRequest]]

\* add_alert, POST, first part: alerts = select(...).eq('username', username),
\* alert_count = len(alerts), user = select(...), is_premium, trial_expired
add_alert_read(t, username, symbol, type) ==
    /\ probe.req[t].pc = "idle"
    /\ username \in DOMAIN users
    /\ probe' = [probe EXCEPT !.req[t] =
           [pc |-> "read",
            alert_count |->
                Cardinality({x \in DOMAIN alerts :
                                 alerts[x].username = username}),
            is_premium |-> users[username].premium,
            trial_expired |-> trial_expired(users[username], now),
            symbol |-> symbol, type |-> type]]
    /\ UNCHANGED <<now, nextRun, alerts, nextId, users, settings, price_cache,
                   tick, sends, storeFailed, lastCall, fetchLog, callers, race,
                   lookup>>

\* add_alert, POST, second part: the two refusals, else the insert
add_alert_insert(t, username) ==
    /\ probe.req[t].pc = "read"
    /\ LET r == probe.req[t]
       IN  IF \/ ~r.is_premium /\ r.trial_expired
              \/ ~r.is_premium /\ r.alert_count >= alert_limit
           THEN UNCHANGED <<alerts, nextId>>
           ELSE /\ alerts' = insertAlert(alerts, nextId, username, r.symbol,
                                         100, r.type)
                /\ nextId' = nextId + 1
    /\ probe' = [probe EXCEPT !.req[t] = IdleRequest]
    /\ UNCHANGED <<now, nextRun, users, settings, price_cache, tick, sends,
                   storeFailed, lastCall, fetchLog, callers, race, lookup>>

NextAddRace ==
    \/ \E t \in Threads, s \in Symbols, ty \in Types :
           add_alert_read(t, "ann", s, ty)
    \/ \E t \in Threads : add_alert_insert(t, "ann")

SpecAddRace == InitAddRace /\ [][NextAddRace]_vars

(***************************************************************************)
(* SpecLive: the tick with a Telegram call that may never return.          *)
(***************************************************************************)
\* requests.post(url, json={...}) is called without a timeout: when the
\* server accepts the connection and never answers, the call does not
\* return and raises nothing.
SendHangs(i) ==
    /\ tick[i].pc = "send"
    /\ \E alert \in tick[i].cur :
        /\ sends' = [sends EXCEPT ![alert.id] = @ + 1]
        /\ tick' = [tick EXCEPT ![i].pc = "hung",
                                ![i].attempted = @ \cup {alert.id}]
    /\ UNCHANGED <<now, nextRun, alerts, nextId, users, settings, price_cache,
                   storeFailed>>
    /\ UNCHANGED auxVars

NextLive ==
    \/ \E i \in Instances : TickStart(i)
    \/ \E i \in Instances : Gate(i)
    \/ \E i \in Instances : NextSymbol(i)
    \/ \E i \in Instances : EvalAlert(i)
    \/ \E i \in Instances : GroupDone(i)
    \/ \E i \in Instances : Send(i)
    \/ \E i \in Instances : SendHangs(i)
    \/ \E i \in Instances : Disable(i)
    \/ \E i \in Instances : TickReturn(i)
    \/ SkipRun
    \/ Elapse
    \/ \E s \in Symbols : add_alert("bob", s, 100, "above")

\* The worker thread of the scheduler keeps executing the instance it runs,
\* and the scheduler keeps handling the runs that come due.
FairLive ==
    /\ WF_vars(\E i \in Instances : TickStart(i))
    /\ WF_vars(\E i \in Instances : Gate(i))
    /\ WF_vars(\E i \in Instances : NextSymbol(i))
    /\ WF_vars(\E i \in Instances : EvalAlert(i))
    /\ WF_vars(\E i \in Instances : GroupDone(i))
    /\ WF_vars(\E i \in Instances : Send(i))
    /\ WF_vars(\E i \in Instances : Disable(i))
    /\ WF_vars(\E i \in Instances : TickReturn(i))
    /\ WF_vars(SkipRun)

SpecLive == Init /\ [][NextLive]_vars /\ FairLive

(***************************************************************************)
(* Claims about the tick: notification and disabling.                      *)
(***************************************************************************)
\* An instance of check_alerts_job ends in this step (it returns, or an
\* exception takes it to the except clause).
TickEnds(i) == tick[i].pc # "idle" /\ tick'[i].pc = "idle"

\* C1: while no store operation of a tick has failed, send_telegram has been
\* called at most once for every alert (an alert is enabled once, when it is
\* created), whatever the calls returned.
C1_AtMostOneSendWhenStoreSucceeds ==
    ~storeFailed => \A id \in 1..MaxAlerts : sends[id] <= 1

\* C1 witness: no store failure so far, an alert was notified once and is
\* disabled, and a later tick is evaluating the alerts of the same symbol.
C1_Witness ==
    /\ ~storeFailed
    /\ \E id \in DOMAIN alerts, i \in Instances :
        /\ sends[id] = 1
        /\ ~alerts[id].enabled
        /\ tick[i].pc = "alerts"
        /\ tick[i].symbol = alerts[id].symbol
        /\ id \notin tick[i].attempted

\* C2: whatever fails in the ticks (price source, send_telegram, store),
\* send_telegram is called at most once for every alert.
C2_AtMostOneSendUnderFailures ==
    \A id \in 1..MaxAlerts : sends[id] <= 1

\* C3: when an instance ends, every alert it called send_telegram for is
\* disabled (or gone), and an instance only ever lists alerts that are
\* enabled, so a disabled alert is not notified by a later tick.
C3_DisabledAfterAttempt ==
    [][\A i \in Instances :
          /\ TickEnds(i) =>
                \A id \in tick[i].attempted :
                    id \notin DOMAIN alerts' \/ ~alerts'[id].enabled
          /\ (tick[i].pc = "gate" /\ tick'[i].pc = "symbols") =>
                \A a \in tick'[i].listed : alerts[a.id].enabled]_vars

C5_OncePerSymbol ==
    \A i \in Instances :
        /\ \A s \in Symbols :
            /\ tick[i].calls[s] <= 1
            /\ tick[i].fetches[s] <= tick[i].calls[s]
            /\ s \notin tick[i].syms => tick[i].calls[s] = 0
        /\ (tick[i].pc = "symbols" /\ tick[i].listed = {}) =>
              \A s \in tick[i].syms : tick[i].calls[s] = 1

\* C5 witness: two listed alerts share the symbol the tick is handling, for
\* which it made one get_cached_price call and one get_stock_price call.
C5_Witness ==
    \E i \in Instances :
        /\ tick[i].pc = "alerts"
        /\ Cardinality(tick[i].group) = 2
        /\ tick[i].calls[tick[i].symbol] = 1
        /\ tick[i].fetches[tick[i].symbol] = 1

\* C5 as stated: whenever a tick ends, get_cached_price has been called
\* exactly once for every distinct symbol of the alerts it listed.
C5_ExactlyOncePerSymbol ==
    [][\A i \in Instances :
          TickEnds(i) => \A s \in tick[i].syms : tick[i].calls[s] = 1]_vars

(***************************************************************************)
(* Claims about the price cache.                                           *)
(***************************************************************************)
\* C6: a call of get_cached_price(s) that starts less than 60 seconds after
\* the start of a call for s that fetched a price returns that price and
\* makes no get_stock_price call; a call that starts 60 seconds or more
\* after the entry for s was stored makes exactly one get_stock_price call.
C6_SamePriceWithinTTL ==
    lastCall.made =>
        /\ (/\ lastCall.prev.price # NoPrice
            /\ lastCall.at - lastCall.prev.started < CACHE_DURATION)
           => (lastCall.fetched = 0 /\ lastCall.ret = lastCall.prev.price)
        /\ (/\ lastCall.prev.price # NoPrice
            /\ lastCall.at - lastCall.prev.obtained >= CACHE_DURATION)
           => lastCall.fetched = 1

\* C6 witness: an entry that has served a hit is 60 seconds old or more and
\* the call fetches.
C6_Witness ==
    /\ lastCall.made
    /\ lastCall.prev.price # NoPrice
    /\ lastCall.prevServed
    /\ lastCall.at - lastCall.prev.obtained >= CACHE_DURATION
    /\ lastCall.fetched = 1

\* C7: a price get_cached_price returns without fetching is the price the
\* latest successful fetch for the symbol obtained, and was obtained less
\* than CACHE_DURATION seconds before the call; with an entry whose age has
\* reached CACHE_DURATION the call fetches and does not return the entry.
C7_OnlyFreshReturned ==
    lastCall.made =>
        /\ lastCall.fetched = 0 =>
               /\ lastCall.prev.price # NoPrice
               /\ lastCall.ret = lastCall.prev.price
               /\ lastCall.at - lastCall.prev.obtained < CACHE_DURATION
        /\ (/\ lastCall.hadEntry
            /\ lastCall.at - lastCall.entryTime >= CACHE_DURATION)
           => (lastCall.fetched = 1 /\ lastCall.ret = lastCall.source)

\* C7 witness: a price that took some seconds to fetch is returned from the
\* cache some seconds after it was obtained.
C7_Witness ==
    /\ lastCall.made
    /\ lastCall.fetched = 0
    /\ lastCall.prev.started < lastCall.prev.obtained
    /\ lastCall.prev.obtained < lastCall.at
    /\ lastCall.ret = lastCall.prev.price

\* C8: a call that fetches and gets no price from the source returns no
\* price and leaves the cache as it was, and the call for a symbol that
\* follows such a call fetches again.
C8_FailureLeavesCache ==
    lastCall.made =>
        /\ (lastCall.fetched = 1 /\ lastCall.source = NoPrice)
           => /\ lastCall.ret = NoPrice
              /\ lastCall.unchanged
              /\ lastCall.hadEntry =>
                     /\ lastCall.symbol \in DOMAIN price_cache
                     /\ price_cache[lastCall.symbol] =
                            <<lastCall.prev.price, lastCall.prev.obtained>>
        /\ lastCall.prevFailed => lastCall.fetched = 1

\* C8 witness: with a stale entry in the cache, a call fails to fetch right
\* after another call for the symbol failed to fetch.
C8_Witness ==
    /\ lastCall.made
    /\ lastCall.hadEntry
    /\ lastCall.fetched = 1
    /\ lastCall.source = NoPrice
    /\ lastCall.prevFailed
    /\ lastCall.symbol \in DOMAIN price_cache

\* C9: two threads are never both past the freshness check of
\* get_cached_price for the same symbol (having both seen a miss), and no
\* store replaces the price of a later fetch by the price of an earlier one.
C9_CriticalSection ==
    /\ \A a, b \in Threads :
           (/\ a # b
            /\ callers[a].pc \in {"fetch", "store"}
            /\ callers[b].pc \in {"fetch", "store"})
           => callers[a].symbol # callers[b].symbol
    /\ ~race.overwrote

C11_ClosedMarketsNoWork ==
    [][\A i \in Instances :
          (/\ tick[i].pc = "gate"
           /\ tick'[i] # tick[i]
           /\ ~us_open(tick[i].clock.ny)
           /\ ~asx_open(tick[i].clock.sydney))
          => /\ tick'[i] = IdleTick
             /\ alerts' = alerts
             /\ price_cache' = price_cache
             /\ sends' = sends
             /\ storeFailed' = storeFailed]_vars

\* C11 witness: an instance is at the gate on a Saturday in both zones while
\* an enabled alert of a user with Telegram enabled is waiting.
C11_Witness ==
    \E i \in Instances, id \in DOMAIN alerts :
        /\ tick[i].pc = "gate"
        /\ tick[i].clock.ny.weekday = 5
        /\ ~us_open(tick[i].clock.ny)
        /\ ~asx_open(tick[i].clock.sydney)
        /\ alerts[id].enabled
        /\ settings[alerts[id].username].telegram_enabled

\* C12: for every New York weekday, hour and minute, us_open is true
\* exactly when the weekday is Monday to Friday and the time of day is from
\* 09:30 to 15:59.
C12_UsSession ==
    probe.fn = "sessions" =>
        (probe.us <=>
            /\ probe.ny.weekday \in 0..4
            /\ 9 * 60 + 30 <= probe.ny.hour * 60 + probe.ny.minute
            /\ probe.ny.hour * 60 + probe.ny.minute < 16 * 60)

\* C12 witness: Tuesday 09:30 in New York, and us_open is true.
C12_Witness ==
    /\ probe.fn = "sessions"
    /\ probe.ny = LocalTime(1, 9, 30)
    /\ probe.us

\* C13: asx_open is true exactly when the Sydney weekday is Monday to Friday
\* and the Sydney time of day is from 10:00 to 15:59, whatever the New York
\* reading; and the step an instance takes from the gate goes on to the
\* listing of the enabled alerts (which gives the alerts or fails) exactly
\* when the US session or the AU session is open.
C13_EitherSessionOpens ==
    /\ [](probe.fn = "sessions" =>
            (probe.asx <=>
                /\ probe.sydney.weekday \in 0..4
                /\ 10 * 60 <= probe.sydney.hour * 60 + probe.sydney.minute
                /\ probe.sydney.hour * 60 + probe.sydney.minute < 16 * 60))
    /\ [][\A i \in Instances :
             (tick[i].pc = "gate" /\ tick'[i] # tick[i]) =>
                 LET ny == tick[i].clock.ny
                     sy == tick[i].clock.sydney
                     us == /\ ny.weekday \in 0..4
                           /\ 9 * 60 + 30 <= ny.hour * 60 + ny.minute
                           /\ ny.hour * 60 + ny.minute < 16 * 60
                     au == /\ sy.weekday \in 0..4
                           /\ 10 * 60 <= sy.hour * 60 + sy.minute
                           /\ sy.hour * 60 + sy.minute < 16 * 60
                 IN  (tick'[i].pc = "symbols" \/ (storeFailed' /\ ~storeFailed))
                         <=> (us \/ au)]_vars

\* C13 witness: with the US session closed and the AU session open at
\* 15:59 in Sydney, the instance has listed the enabled alerts.
C13_Witness ==
    /\ probe.fn = "sessions"
    /\ ~probe.us
    /\ probe.asx
    /\ probe.sydney.hour = 15 /\ probe.sydney.minute = 59
    /\ \E i \in Instances : tick[i].pc = "symbols"

\* C14: for every alert and price, the trigger test gives true for an
\* alert above its target exactly when price >= target, for an alert below
\* its target exactly when price <= target (so at price = target in both),
\* and false for an alert of any other type.
C14_TriggerTest ==
    (probe.fn = "triggered" /\ probe.done) =>
        /\ probe.type = "above" => (probe.out <=> probe.price >= probe.target)
        /\ probe.type = "below" => (probe.out <=> probe.price <= probe.target)
        /\ probe.type \notin {"above", "below"} => ~probe.out

\* C14 witness: an alert below 50.00 is found triggered at 50.00.
C14_Witness ==
    /\ probe.fn = "triggered"
    /\ probe.done
    /\ probe.type = "below"
    /\ probe.target = 5000
    /\ probe.price = 5000
    /\ probe.out

(***************************************************************************)
(* Claims about the handling of one symbol and of failures in a tick.      *)
(***************************************************************************)
\* C15: an instance evaluates, notifies and disables alerts only while it
\* holds a present price of their symbol; and the step in which
\* get_cached_price gives no price for a symbol drops the alerts of that
\* symbol from the run without changing an alert or sending anything, and
\* leaves the instance in the loop over the symbols with the alerts of the
\* other symbols still to be handled.
C15_AbsentPriceSkipsSymbol ==
    /\ [](\A i \in Instances :
            tick[i].pc \in {"alerts", "send", "disable"} =>
                /\ tick[i].price # NoPrice
                /\ \A a \in tick[i].group \cup tick[i].cur :
                       a.symbol = tick[i].symbol)
    /\ [][\A i \in Instances, s \in Symbols :
             (/\ tick[i].pc = "symbols"
              /\ tick'[i].calls[s] = tick[i].calls[s] + 1
              /\ tick'[i].price = NoPrice)
             => /\ tick'[i].pc = "symbols"
                /\ tick'[i].group = {}
                /\ alerts' = alerts
                /\ sends' = sends
                /\ tick'[i].listed =
                       {a \in tick[i].listed : a.symbol # s}]_vars

\* C15 witness: the instance got no price for one symbol (it made the call
\* and the cache holds nothing for the symbol), whose alert is still enabled
\* and was not notified, and is now evaluating the alerts of another symbol.
C15_Witness ==
    \E i \in Instances, s \in Symbols, id \in DOMAIN alerts :
        /\ tick[i].pc = "alerts"
        /\ tick[i].symbol # s
        /\ tick[i].calls[s] = 1
        /\ s \notin DOMAIN price_cache
        /\ alerts[id].symbol = s
        /\ alerts[id].enabled
        /\ sends[id] = 0

\* C16 (as amended): with a present price p of a symbol, an alert the
\* instance finds not triggered at p is passed over without a change to the
\* alerts or a send; an alert of an eligible owner that is triggered at p
\* goes on to be disabled, unless a store call fails; and every alert the
\* instance disables is triggered at p, is disabled (or deleted meanwhile),
\* and had send_telegram called once for it when its owner has Telegram
\* enabled with a chat id, and not at all otherwise.
C16_TriggeredAreDisabled ==
    [][\A i \in Instances :
          /\ (tick[i].pc = "alerts" /\ tick'[i].pc \notin {"idle", "symbols"}) =>
                \A a \in tick[i].group \ tick'[i].group :
                    /\ ~triggered(a, tick[i].price) =>
                           /\ tick'[i].pc = "alerts"
                           /\ alerts' = alerts
                           /\ sends' = sends
                    /\ (/\ triggered(a, tick[i].price)
                        /\ ~trial_expired(users[a.username], now))
                       => /\ tick'[i].pc \in {"send", "disable"}
                          /\ tick'[i].cur = {a}
          /\ (tick[i].pc = "disable" /\ tick'[i].pc = "alerts") =>
                \A a \in tick[i].cur :
                    /\ triggered(a, tick[i].price)
                    /\ a.id \in DOMAIN alerts' => ~alerts'[a.id].enabled
                    /\ sends[a.id] >= 1 <=> a.id \in tick[i].attempted
                    /\ a.id \in tick[i].attempted <=>
                           /\ settings[a.username].telegram_enabled
                           /\ \/ settings[a.username].telegram_chat_id # ""
                              \/ TELEGRAM_CHAT_ID # ""]_vars

\* C16 witness: no store call has failed; at a price of 110 for the symbol
\* of two alerts, the instance has notified and disabled the alert above 100
\* and has passed over the older alert below 100, which is enabled and was
\* never notified, with one fetch for the symbol.
C16_Witness ==
    /\ ~storeFailed
    /\ \E i \in Instances, a \in DOMAIN alerts, b \in DOMAIN alerts :
        /\ b < a
        /\ alerts[a].symbol = alerts[b].symbol
        /\ alerts[a].type = "above" /\ alerts[b].type = "below"
        /\ alerts[a].symbol \in DOMAIN price_cache
        /\ price_cache[alerts[a].symbol][1] > alerts[b].target
        /\ tick[i].pc = "symbols"
        /\ tick[i].listed = {}
        /\ a \in tick[i].attempted
        /\ tick[i].fetches[alerts[a].symbol] = 1
        /\ ~alerts[a].enabled /\ sends[a] = 1
        /\ alerts[b].enabled /\ sends[b] = 0

\* C16 as stated: every alert an instance disables had a notification
\* attempt.
C16_DisabledWereNotified ==
    [][\A i \in Instances :
          (tick[i].pc = "disable" /\ tick'[i].pc = "alerts") =>
              \A a \in tick[i].cur : a.id \in tick[i].attempted]_vars

\* C17: send_telegram is never called for an alert whose owner is not
\* premium and has a trial_ends timestamp that lies in the past.
C17_ExpiredTrialNotNotified ==
    \A id \in DOMAIN alerts :
        (/\ ~users[alerts[id].username].premium
         /\ users[alerts[id].username].trial_ends.kind \in {"iso", "offset"}
         /\ users[alerts[id].username].trial_ends.at < now)
        => sends[id] = 0

\* C18: an instance of check_alerts_job is always at a line of the function
\* or has returned, never dead with an exception; the step in which an
\* exception is raised inside an instance is a return of that instance that
\* leaves the job scheduled as it was; and whenever a run is due with no
\* instance executing (after a failed tick as after any other), an instance
\* can start.
C18_FailuresCaught ==
    /\ [](\A i \in Instances :
            tick[i].pc \in {"idle", "gate", "symbols", "alerts", "send",
                            "disable"})
    /\ [][\A i \in Instances :
             (tick[i].pc # "idle" /\ tick'[i].pc \notin
                  {"gate", "symbols", "alerts", "send", "disable"})
             => /\ tick'[i] = IdleTick
                /\ nextRun' = nextRun]_vars
    /\ []((now >= nextRun /\ \A i \in Instances : tick[i].pc = "idle")
            => ENABLED TickStart(1))

\* C18 witness: after an exception in an earlier tick, a later tick has
\* listed the enabled alerts and is about to look up its first price.
C18_Witness ==
    /\ storeFailed
    /\ \E i \in Instances :
        /\ tick[i].pc = "symbols"
        /\ tick[i].listed # {}
        /\ \A s \in Symbols : tick[i].calls[s] = 0

\* C19 (as amended): the step in which an exception is raised inside a tick
\* ends the instance with its remaining alerts unhandled and changes no
\* alert, no cache entry and sends nothing; nothing is sent but by an
\* instance at its send_telegram call, so none is sent by the instance after
\* the failure. What the instance disabled before the failure stays
\* disabled.
C19_FailureAbortsTick ==
    /\ [][(storeFailed' /\ ~storeFailed) =>
             /\ \A i \in Instances : tick'[i] = IdleTick
             /\ alerts' = alerts
             /\ sends' = sends
             /\ price_cache' = price_cache]_vars
    /\ [][\A i \in Instances :
             (tick[i].pc \in {"alerts", "send", "disable"}
              /\ tick'[i].pc = "idle")
             => /\ alerts' = alerts
                /\ sends' = sends]_vars
    /\ [][sends' # sends =>
             \E i \in Instances :
                 tick[i].pc = "send" /\ tick'[i].pc = "disable"]_vars

\* C19 witness: a tick failed and no instance is executing; of two alerts
\* of one symbol, both triggered at the price cached at this time, the
\* younger was notified and is disabled, the older is enabled and was never
\* notified.
C19_Witness ==
    /\ storeFailed
    /\ \A i \in Instances : tick[i].pc = "idle"
    /\ \E a \in DOMAIN alerts, b \in DOMAIN alerts :
        /\ b < a
        /\ alerts[a].symbol = alerts[b].symbol
        /\ alerts[a].symbol \in DOMAIN price_cache
        /\ price_cache[alerts[a].symbol][2] = now
        /\ alerts[a].type = "above" /\ alerts[b].type = "above"
        /\ price_cache[alerts[a].symbol][1] >= alerts[a].target
        /\ price_cache[alerts[a].symbol][1] >= alerts[b].target
        /\ settings[alerts[b].username].telegram_enabled
        /\ ~alerts[a].enabled /\ sends[a] = 1
        /\ alerts[b].enabled /\ sends[b] = 0

\* C19 as stated: when an exception ends a tick, every alert the tick
\* notified (which was enabled when the tick started) is still enabled.
C19_FlagsAsAtStart ==
    [][\A i \in Instances :
          (tick[i].pc \in {"alerts", "send", "disable"}
           /\ tick'[i].pc = "idle")
          => \A id \in tick[i].attempted :
                 id \in DOMAIN alerts' => alerts'[id].enabled]_vars

\* C20: every instance of check_alerts_job that has started eventually
\* returns.
C20_TickFinishes ==
    \A i \in Instances : (tick[i].pc # "idle") ~> (tick[i].pc = "idle")

\* C21: the engine's disable is idempotent and tolerates a missing row:
\* disabling twice gives the table that disabling once gives, disabling an id
\* that is not in the table gives the table back, and a tick whose alert was
\* deleted after the listing can complete its disable, which then changes no
\* row and creates none.
C21_DisableIdempotent ==
    /\ [](\A id \in 1..MaxAlerts :
            /\ disableAlert(disableAlert(alerts, id), id)
                   = disableAlert(alerts, id)
            /\ id \notin DOMAIN alerts => disableAlert(alerts, id) = alerts
            /\ \A x \in DOMAIN alerts \ {id} :
                   disableAlert(alerts, id)[x] = alerts[x])
    /\ [](\A i \in Instances :
            tick[i].pc = "disable"
                => ENABLED (Disable(i) /\ tick'[i].pc = "alerts"))
    /\ [][\A i \in Instances :
            (/\ tick[i].pc = "disable"
             /\ tick'[i].pc = "alerts"
             /\ \A a \in tick[i].cur : a.id \notin DOMAIN alerts)
                => alerts' = alerts]_vars

\* An instance is about to disable an alert that was deleted after the
\* listing, while another alert is in the table.
C21_Witness ==
    \E i \in Instances :
        /\ tick[i].pc = "disable"
        /\ \E a \in tick[i].cur : a.id \notin DOMAIN alerts
        /\ DOMAIN alerts # {}

\* C22: no step of the program turns a disabled alert into an enabled one:
\* every alert that is enabled after a step was enabled before it, or is the
\* row that add_alert has just inserted under a new id.
C22_NoRearm ==
    [][/\ \A id \in DOMAIN alerts \cap DOMAIN alerts' :
              alerts'[id].enabled => alerts[id].enabled
       /\ \A id \in DOMAIN alerts' \ DOMAIN alerts :
              /\ id = nextId
              /\ nextId' = nextId + 1]_vars

\* A disabled alert holds a direction and a target under which no price
\* triggers, so it was edited after the tick listed it; the other alert is
\* enabled and no tick is running.
C22_Witness ==
    /\ \A i \in Instances : tick[i].pc = "idle"
    /\ \E id \in DOMAIN alerts :
        /\ ~alerts[id].enabled
        /\ alerts[id].type = "below"
        /\ alerts[id].target = 0
        /\ sends[id] = 1
    /\ \E id \in DOMAIN alerts : alerts[id].enabled

\* C23: every alert in the table has a target above zero.
C23_TargetsPositive ==
    \A id \in DOMAIN alerts : alerts[id].target > 0

\* C24: whenever an instance calls send_telegram, control comes back to the
\* instance, which goes on to the disable step (or ends in its except clause
\* when building the message raised).
C24_SendReturns ==
    \A i \in Instances :
        (tick[i].pc = "send") ~> (tick[i].pc \in {"disable", "idle"})

\* C25: get_stock_price asks for the base symbol first and, when that frame
\* is empty and the symbol has no .AX suffix, for symbol + '.AX'; it returns
\* no price only when every frame it asked for was empty or a call raised.
C25_QuoteGivesUpLast ==
    (probe.fn = "get_stock_price" /\ probe.done) =>
        LET frames == <<probe.q.base, probe.q.ax>>
            asked == 1..Len(probe.tried)
        IN  /\ probe.tried[1] = probe.symbol
            /\ (probe.q.base.kind = "empty" /\ ~EndsWithAX(probe.symbol))
                   <=> probe.tried = <<probe.symbol, probe.symbol \o ".AX">>
            /\ probe.ret = NoPrice =>
                   \/ \A k \in asked : frames[k].kind = "empty"
                   \/ \E k \in asked : frames[k].kind = "raise"

\* C26: a fetch that gives no price for a symbol costs the current tick
\* only. A tick fetches a symbol at most once; a failed fetch leaves the
\* cache as it was and the symbol without a fresh entry; and when a later
\* tick comes to a symbol whose latest fetch failed, it fetches again and,
\* when it gets a price, goes on to evaluate all listed alerts of the symbol
\* with that price.
C26_FailureCostsOneTick ==
    /\ [](\A i \in Instances, s \in Symbols :
            tick[i].calls[s] <= 1 /\ tick[i].fetches[s] <= 1)
    /\ [][\A i \in Instances, s \in Symbols :
            tick'[i].calls[s] = tick[i].calls[s] + 1 =>
                /\ (s \in probe'.failed /\ tick'[i].fetches[s] = 1) =>
                       /\ price_cache' = price_cache
                       /\ ~CacheHit(price_cache', s, now')
                       /\ tick'[i].pc = "symbols"
                       /\ \A a \in tick'[i].listed : a.symbol # s
                /\ s \in probe.failed =>
                       /\ tick[i].calls[s] = 0
                       /\ tick'[i].fetches[s] = 1
                       /\ s \notin probe'.failed =>
                              /\ tick'[i].pc = "alerts"
                              /\ tick'[i].group
                                     = {a \in tick[i].listed : a.symbol = s}
                              /\ tick'[i].group # {}
                              /\ tick'[i].price = price_cache'[s][1]
                              /\ tick'[i].price # NoPrice]_vars

\* A tick evaluates the alerts of a symbol with a price it has fetched after
\* the fetch of an earlier tick for that symbol had failed.
C26_Witness ==
    \E i \in Instances :
        /\ tick[i].pc = "alerts"
        /\ tick[i].group # {}
        /\ tick[i].symbol \in probe.retried
        /\ tick[i].symbol \notin probe.failed
        /\ tick[i].fetches[tick[i].symbol] = 1

\* C27 (as amended): an alert goes from enabled to disabled only by the
\* disable step of an instance that found it triggered at the price it holds
\* for the symbol; send_telegram was called for it earlier in the same tick
\* exactly when the owner has Telegram enabled and a chat id is at hand, and
\* not at all otherwise.
C27_DisabledOnlyOnTrigger ==
    [][\A id \in DOMAIN alerts \cap DOMAIN alerts' :
          (alerts[id].enabled /\ ~alerts'[id].enabled) =>
              \E i \in Instances :
                  /\ tick[i].pc = "disable"
                  /\ tick'[i].pc = "alerts"
                  /\ \E a \in tick[i].cur :
                      /\ a.id = id
                      /\ triggered(a, tick[i].price)
                      /\ id \in tick[i].attempted <=>
                             /\ settings[a.username].telegram_enabled
                             /\ \/ settings[a.username].telegram_chat_id # ""
                                \/ TELEGRAM_CHAT_ID # ""]_vars

\* Ann, who has Telegram switched off, has an alert that a tick disabled
\* without any send, next to an alert of Bob that was disabled after one.
C27_Witness ==
    \E a \in DOMAIN alerts, b \in DOMAIN alerts :
        /\ alerts[a].username = "ann" /\ alerts[b].username = "bob"
        /\ ~alerts[a].enabled /\ sends[a] = 0
        /\ ~alerts[b].enabled /\ sends[b] = 1
        /\ \A i \in Instances : tick[i].pc = "idle"

\* C27 as stated: an alert goes from enabled to disabled only after a send
\* attempt for it in the same tick.
C27_DisabledOnlyAfterSend ==
    [][\A id \in DOMAIN alerts \cap DOMAIN alerts' :
          (alerts[id].enabled /\ ~alerts'[id].enabled) =>
              \E i \in Instances :
                  /\ tick[i].pc = "disable"
                  /\ id \in tick[i].attempted]_vars

\* C28: a step of a tick writes nothing to the store but enabled = false on
\* the alert the instance found triggered: the ids in the table, and every
\* row's owner, symbol, target and direction stay as they are, an enabled
\* flag changes only to false and only for the alert the instance is
\* disabling, and users, user_settings and the id sequence are not written.
C28_TickWritesOnlyDisable ==
    [][tick' # tick =>
          /\ users' = users
          /\ settings' = settings
          /\ nextId' = nextId
          /\ DOMAIN alerts' = DOMAIN alerts
          /\ \A id \in DOMAIN alerts :
              /\ alerts'[id].username = alerts[id].username
              /\ alerts'[id].symbol = alerts[id].symbol
              /\ alerts'[id].target = alerts[id].target
              /\ alerts'[id].type = alerts[id].type
              /\ alerts'[id].enabled # alerts[id].enabled =>
                     /\ ~alerts'[id].enabled
                     /\ \E i \in Instances :
                            /\ tick[i].pc = "disable"
                            /\ \E a \in tick[i].cur :
                                   a.id = id /\ triggered(a, tick[i].price)]_vars

\* An instance has just disabled one of two alerts of a symbol: the alert it
\* notified is disabled, the other one is still waiting in its group,
\* enabled and with the row it had.
C28_Witness ==
    \E i \in Instances, a \in DOMAIN alerts :
        /\ tick[i].pc = "alerts"
        /\ a \in tick[i].attempted
        /\ ~alerts[a].enabled
        /\ \E b \in tick[i].group :
            /\ b.id \in DOMAIN alerts
            /\ alerts[b.id] = [username |-> b.username, symbol |-> b.symbol,
                               target |-> b.target, type |-> b.type,
                               enabled |-> TRUE]

\* C29 (as amended): an instance sends for and disables an alert only when
\* the price it holds satisfies the trigger condition under the target and
\* direction the alert had when the instance listed it. The listing is the
\* enabled rows of the table at that moment, and the instance takes on no
\* alert and no new value of an alert afterwards.
C29_TriggerOnListedValues ==
    /\ [][\A i \in Instances :
            (\/ tick[i].pc = "send" /\ tick'[i].pc = "disable"
             \/ tick[i].pc = "disable" /\ tick'[i].pc = "alerts") =>
                \A a \in tick[i].cur :
                    \/ a.type = "above" /\ tick[i].price >= a.target
                    \/ a.type = "below" /\ tick[i].price <= a.target]_vars
    /\ [][\A i \in Instances :
            IF tick[i].pc = "gate"
            THEN tick'[i].pc = "symbols" =>
                     tick'[i].listed = listEnabledAlerts(alerts)
            ELSE tick'[i].listed \cup tick'[i].group \cup tick'[i].cur
                     \subseteq tick[i].listed \cup tick[i].group
                                   \cup tick[i].cur]_vars

\* An instance is about to disable an alert it holds as triggered, while
\* the row has been edited since the listing and is not triggered at the
\* instance's price under the target and direction now stored.
C29_Witness ==
    \E i \in Instances :
        /\ tick[i].pc = "disable"
        /\ \E a \in tick[i].cur :
            /\ a.id \in DOMAIN alerts
            /\ a.id \in tick[i].attempted
            /\ triggered(a, tick[i].price)
            /\ ~triggered(alerts[a.id], tick[i].price)

\* C29 as stated: an instance sends for and disables an alert only when the
\* price satisfies the trigger condition under the target and direction
\* stored for the alert at the moment of the disable.
C29_TriggerOnStoredValues ==
    [][\A i \in Instances :
          (tick[i].pc = "disable" /\ tick'[i].pc = "alerts") =>
              \A a \in tick[i].cur :
                  a.id \in DOMAIN alerts =>
                      triggered(alerts[a.id], tick[i].price)]_vars

\* C30 (as amended): send_telegram is called for an alert only by an
\* instance that holds the alert, one call at a time, and every alert an
\* instance holds was a row of the table, enabled, when the instance listed
\* the alerts; the instance takes on no alert afterwards.
C30_SendsForListed ==
    /\ [][\A id \in 1..MaxAlerts :
            sends'[id] # sends[id] =>
                /\ sends'[id] = sends[id] + 1
                /\ \E i \in Instances :
                       /\ tick[i].pc = "send"
                       /\ \E a \in tick[i].cur : a.id = id]_vars
    /\ [][\A i \in Instances :
            /\ (tick[i].pc = "gate" /\ tick'[i].pc = "symbols") =>
                   \A a \in tick'[i].listed :
                       a.id \in DOMAIN alerts /\ alerts[a.id].enabled
            /\ tick[i].pc \notin {"idle", "gate"} =>
                   {a.id : a \in tick'[i].listed \cup tick'[i].group
                                     \cup tick'[i].cur}
                       \subseteq {a.id : a \in tick[i].listed \cup tick[i].group
                                                 \cup tick[i].cur}]_vars

\* An instance is about to call send_telegram for an alert that was deleted
\* after the listing and has not been notified before.
C30_Witness ==
    \E i \in Instances :
        /\ tick[i].pc = "send"
        /\ \E a \in tick[i].cur :
            /\ a.id \notin DOMAIN alerts
            /\ sends[a.id] = 0

\* C30 as stated: send_telegram is never called for an alert that is not in
\* the table at the moment of the call.
C30_NoSendForDeleted ==
    [][\A id \in 1..MaxAlerts :
          sends'[id] = sends[id] + 1 => id \in DOMAIN alerts]_vars

\* C31: an alert whose owner is not premium and has a trial_ends timestamp
\* in the past stays enabled.
C31_IneligibleLeftEnabled ==
    \A id \in DOMAIN alerts :
        (/\ ~users[alerts[id].username].premium
         /\ users[alerts[id].username].trial_ends.kind \in {"iso", "offset"}
         /\ users[alerts[id].username].trial_ends.at < now)
        => alerts[id].enabled

\* C32: a triggered alert whose owner has no row in users or no row in
\* user_settings is passed over: the step that takes it from the group
\* leaves the instance in the loop over the alerts and changes neither the
\* alerts nor the sends and raises nothing; such a step is always possible;
\* and the alert stays enabled and unnotified throughout.
C32_MissingRowsSkipped ==
    /\ [][\A i \in Instances :
            (tick[i].pc = "alerts" /\ tick'[i].pc # "idle") =>
                \A a \in tick[i].group \ tick'[i].group :
                    (/\ triggered(a, tick[i].price)
                     /\ \/ a.username \notin DOMAIN settings
                        \/ a.username \notin DOMAIN users)
                    => /\ tick'[i].pc = "alerts"
                       /\ tick'[i].cur = {}
                       /\ alerts' = alerts
                       /\ sends' = sends
                       /\ storeFailed' = storeFailed]_vars
    /\ [](\A i \in Instances :
            (/\ tick[i].pc = "alerts"
             /\ \E a \in tick[i].group :
                    \/ a.username \notin DOMAIN settings
                    \/ a.username \notin DOMAIN users)
                => ENABLED (EvalAlert(i) /\ tick'[i].pc = "alerts"
                                        /\ storeFailed' = storeFailed))
    /\ [](\A id \in DOMAIN alerts :
            (\/ alerts[id].username \notin DOMAIN settings
             \/ alerts[id].username \notin DOMAIN users)
            => alerts[id].enabled /\ sends[id] = 0)

\* The instance is through with the alerts of the symbol: Ann, who has a
\* settings row but no users row, still has her alert enabled and was not
\* notified, and Bob's alert after it was notified and disabled.
C32_Witness ==
    /\ "ann" \notin DOMAIN users
    /\ "ann" \in DOMAIN settings
    /\ tick[1].pc = "alerts"
    /\ tick[1].group = {}
    /\ ~storeFailed
    /\ alerts[1].enabled /\ sends[1] = 0
    /\ ~alerts[2].enabled /\ sends[2] = 1

\* C33: whenever an instance is about to call send_telegram for an alert,
\* the chat id it passes is the one in the user_settings row of the alert's
\* owner.
C33_SentToOwnersDestination ==
    \A i \in Instances :
        tick[i].pc = "send" =>
            \A a \in tick[i].cur :
                tick[i].chat_id = settings[a.username].telegram_chat_id

\* C34: the eligibility gate passes a triggered alert over only when its
\* owner is not premium and has a trial_ends that parses and lies strictly
\* before the current time; so the alert of a premium owner, and of a
\* non-premium owner with no trial_ends, with one that does not parse, or
\* with one equal to or after the current time, goes on to the send or the
\* disable.
C34_GateSuppressesOnlyExpired ==
    [][\A i \in Instances :
          (tick[i].pc = "alerts" /\ tick'[i].pc = "alerts") =>
              \A a \in tick[i].group \ tick'[i].group :
                  (/\ triggered(a, tick[i].price)
                   /\ a.username \in DOMAIN users
                   /\ a.username \in DOMAIN settings)
                  => /\ ~users[a.username].premium
                     /\ users[a.username].trial_ends.kind \in {"iso", "offset"}
                     /\ users[a.username].trial_ends.at < now]_vars

\* At the very instant of her trial_ends, the triggered alert of Ann, who is
\* not premium, has passed the gate and is about to be notified.
C34_Witness ==
    /\ now = 450
    /\ ~users["ann"].premium
    /\ users["ann"].trial_ends = [kind |-> "iso", at |-> 450]
    /\ tick[1].pc = "send"
    /\ \E a \in tick[1].cur : a.username = "ann"

\* C35: a user who is not premium never owns more than alert_limit alerts.
C35_FreeTierLimit ==
    \A u \in DOMAIN users :
        ~users[u].premium =>
            Cardinality({x \in DOMAIN alerts : alerts[x].username = u})
                <= alert_limit

====
